---- MODULE Spec2Model ----
(***************************************************************************)
(* Show/hide and auto-update lifecycle of the React <Float> component      *)
(* (packages/headlessui-float-react/src/float.tsx).                        *)
(*                                                                         *)
(* The component keeps two module-level registries keyed by instance id    *)
(* (showStateMap, autoUpdateCleanerMap), two pieces of React state         *)
(* (isMounted, show) and one layout effect on [show] whose return value    *)
(* (the disposer stored in autoUpdateCleanerMap) is the effect's cleanup.  *)
(* The <Transition> primitive is the environment: it calls beforeEnter     *)
(* when an enter transition begins and afterLeave when a leave transition  *)
(* has finished.                                                           *)
(***************************************************************************)
EXTENDS Integers, Sequences, FiniteSets, TLC

\* Instance ids handed out by useId(); Focus are the instances Spec drives.
Ids == {1, 2}
Focus == {1}

\* Bound on the number of environment events recorded per instance.
MaxHist == 7

\* Values of props.autoUpdate that the guard `props.autoUpdate !== false`
\* distinguishes (an options object behaves like "true").
AutoUpdateValues == {"undefined", "true", "false"}

VARIABLES
  phase,                \* "unmounted" | "mounted" | "destroyed"
  propsShow,            \* props.show
  propsAutoUpdate,      \* props.autoUpdate
  isMounted,            \* useState(false)
  show,                 \* useState(props.show): the committed show state
  reference,            \* refs.reference.current is non-null
  floating,             \* refs.floating.current is non-null
  tphase,               \* <Transition>: "hidden" | "entering" | "visible" | "leaving"
  cleanup,              \* cleanup returned by the last run of the show effect (0 = undefined)
  showStateMap,         \* showStateMap.get(id) === true
  autoUpdateCleanerMap, \* autoUpdateCleanerMap.get(id): 0 = no entry, k = disposer of subscription k
  subs,                 \* per instance: number of disposer calls of each subscription created
  hist,                 \* per instance: requests, animation boundaries and callbacks, in order
  effectLog,            \* per instance: what the last run of the show effect saw and did
  crashed,              \* an exception escaped a render or the show effect
  children,             \* props.children: what the reference and the floating slot hold
  output,               \* what the last render returned: "none" | "empty" | "tree" | "throws"
  ever,                 \* history: a handle was ever attached, autoUpdate was ever not false
  throttle,             \* per subscription: the throttled callback is "idle" | "waiting" | "pending"
  updateLog,            \* per instance: the last run of updateFloating found its subscription "live" | "disposed"
  config,               \* the props the middleware effect depends on, as of the last render
  middleware,           \* useState<Middleware[]>(): the pipeline handed to useFloating
  mwLog                 \* what the middleware effect did on the last render

\* The state of the middleware-building effect.
mwVars == <<config, middleware, mwLog>>

vars == <<phase, propsShow, propsAutoUpdate, isMounted, show, reference, floating,
          tphase, cleanup, showStateMap, autoUpdateCleanerMap, subs, hist,
          effectLog, crashed, children, output, ever, throttle, updateLog,
          config, middleware, mwLog>>

\* The whole state as one record, so that handlers compose as functions.
World ==
  [phase |-> phase, propsShow |-> propsShow, propsAutoUpdate |-> propsAutoUpdate,
   isMounted |-> isMounted, show |-> show, reference |-> reference,
   floating |-> floating, tphase |-> tphase, cleanup |-> cleanup,
   showStateMap |-> showStateMap, autoUpdateCleanerMap |-> autoUpdateCleanerMap,
   subs |-> subs, hist |-> hist, effectLog |-> effectLog, crashed |-> crashed,
   children |-> children, output |-> output, ever |-> ever,
   throttle |-> throttle, updateLog |-> updateLog]

Install(w) ==
  /\ phase' = w.phase
  /\ propsShow' = w.propsShow
  /\ propsAutoUpdate' = w.propsAutoUpdate
  /\ isMounted' = w.isMounted
  /\ show' = w.show
  /\ reference' = w.reference
  /\ floating' = w.floating
  /\ tphase' = w.tphase
  /\ cleanup' = w.cleanup
  /\ showStateMap' = w.showStateMap
  /\ autoUpdateCleanerMap' = w.autoUpdateCleanerMap
  /\ subs' = w.subs
  /\ hist' = w.hist
  /\ effectLog' = w.effectLog
  /\ crashed' = w.crashed
  /\ children' = w.children
  /\ output' = w.output
  /\ ever' = w.ever
  /\ throttle' = w.throttle
  /\ updateLog' = w.updateLog
  /\ UNCHANGED mwVars

NoHistory == [reference |-> FALSE, floating |-> FALSE, autoUpdate |-> FALSE]

\* What a slot of props.children holds: a React element, something that is
\* not an element (a string), or nothing (undefined or null).
ChildKinds == {"element", "text", "missing"}

NoEffect == [show |-> FALSE, marked |-> FALSE, cleaner |-> 0, ops |-> <<>>]

\* JavaScript values of the option props, as far as `typeof` and `===` tell
\* them apart: t is the typeof result, v the number, the truth value or the
\* reference identity.
Undefined == [t |-> "undefined", v |-> 0]

False == [t |-> "boolean", v |-> 0]

True == [t |-> "boolean", v |-> 1]

Num(n) == [t |-> "number", v |-> n]

Obj(r) == [t |-> "object", v |-> r]

Fn(r) == [t |-> "function", v |-> r]

\* props.middleware: undefined, an array, or a function returning an array.
MwUndefined == [t |-> "undefined", v |-> 0, items |-> <<>>]

MwArray(r, l) == [t |-> "object", v |-> r, items |-> l]

MwFunction(r, l) == [t |-> "function", v |-> r, items |-> l]

NoConfig ==
  [offset |-> Undefined, flip |-> Undefined, shift |-> Undefined,
   autoPlacement |-> Undefined, arrow |-> Undefined, hide |-> Undefined,
   middleware |-> MwUndefined]

\* useState<Middleware[]>() starts undefined.
NoMiddleware == [set |-> FALSE, list |-> <<>>]

LifecycleInit ==
  /\ phase = [i \in Ids |-> "unmounted"]
  /\ propsShow = [i \in Ids |-> FALSE]
  /\ propsAutoUpdate = [i \in Ids |-> "undefined"]
  /\ isMounted = [i \in Ids |-> FALSE]
  /\ show = [i \in Ids |-> FALSE]
  /\ reference = [i \in Ids |-> FALSE]
  /\ floating = [i \in Ids |-> FALSE]
  /\ tphase = [i \in Ids |-> "hidden"]
  /\ cleanup = [i \in Ids |-> 0]
  /\ showStateMap = [i \in Ids |-> FALSE]
  /\ autoUpdateCleanerMap = [i \in Ids |-> 0]
  /\ subs = [i \in Ids |-> <<>>]
  /\ hist = [i \in Ids |-> <<>>]
  /\ effectLog = [i \in Ids |-> NoEffect]
  /\ crashed = [i \in Ids |-> FALSE]
  /\ children = [i \in Ids |-> [reference |-> "element", floating |-> "element"]]
  /\ output = [i \in Ids |-> "none"]
  /\ ever = [i \in Ids |-> NoHistory]
  /\ throttle = [i \in Ids |-> <<>>]
  /\ updateLog = [i \in Ids |-> "none"]

Init ==
  /\ LifecycleInit
  /\ config = NoConfig
  /\ middleware = NoMiddleware
  /\ mwLog = "none"

----------------------------------------------------------------------------
\* Bookkeeping of what a handler did.

Log(w, i, op) == [w EXCEPT !.effectLog[i].ops = Append(@, op)]

Record(w, i, e) == [w EXCEPT !.hist[i] = Append(@, e)]

----------------------------------------------------------------------------
\* events.show / events.hide: the caller's onShow / onHide callbacks.

eventsShow(w, i) == Record(Log(w, i, "onShow"), i, "onShow")

eventsHide(w, i) == Record(Log(w, i, "onHide"), i, "onHide")

\* Invoking the disposer that autoUpdate() returned for subscription k.
DisposeNeverCalled(w, i, k) == Log(w, i, "dispose")

Dispose(w, i, k) == Log([w EXCEPT !.subs[i][k] = @ + 1], i, "dispose")

\* The guard of startAutoUpdate.
startAutoUpdateGuardIgnoringOption(w, i) ==
  /\ w.reference[i]
  /\ w.floating[i]
  /\ w.autoUpdateCleanerMap[i] = 0

startAutoUpdateGuard(w, i) ==
  /\ w.reference[i]
  /\ w.floating[i]
  /\ w.propsAutoUpdate[i] # "false"
  /\ w.autoUpdateCleanerMap[i] = 0

startAutoUpdate(w, i) ==
  LET w1 == Log(w, i, "startAutoUpdate") IN
  IF startAutoUpdateGuard(w1, i)
  THEN Log([w1 EXCEPT !.subs[i] = Append(@, 0),
                      !.throttle[i] = Append(@, "idle"),
                      !.autoUpdateCleanerMap[i] = Len(w1.subs[i]) + 1],
           i, "autoUpdate")
  ELSE w1

\* clearAutoUpdate: `get(id)!` is called unconditionally, so a missing entry
\* throws before the delete.
clearAutoUpdateClearingMap(w, i) ==
  LET k == w.autoUpdateCleanerMap[i] IN
  IF k = 0
  THEN Log([w EXCEPT !.crashed[i] = TRUE], i, "throw")
  ELSE Log([Dispose(w, i, k) EXCEPT !.autoUpdateCleanerMap = [j \in Ids |-> 0]],
           i, "deleteCleaner")

clearAutoUpdate(w, i) ==
  LET k == w.autoUpdateCleanerMap[i] IN
  IF k = 0
  THEN Log([w EXCEPT !.crashed[i] = TRUE], i, "throw")
  ELSE Log([Dispose(w, i, k) EXCEPT !.autoUpdateCleanerMap[i] = 0], i, "deleteCleaner")

\* The two branch conditions of the show effect.
ShowGuardAnyShow(w, i) ==
  /\ w.reference[i]
  /\ w.floating[i]
  /\ ~w.showStateMap[i]

ShowGuardNoRegistryCheck(w, i) ==
  /\ w.reference[i]
  /\ w.floating[i]
  /\ w.show[i] = TRUE

ShowGuard(w, i) ==
  /\ w.reference[i]
  /\ w.floating[i]
  /\ w.show[i] = TRUE
  /\ ~w.showStateMap[i]

HideGuardNoCleanerCheck(w, i) ==
  /\ w.show[i] = FALSE
  /\ w.showStateMap[i]

HideGuard(w, i) ==
  /\ w.show[i] = FALSE
  /\ w.showStateMap[i]
  /\ w.autoUpdateCleanerMap[i] # 0

ShowBranchWithoutMark(w, i) ==
  startAutoUpdate(eventsShow(w, i), i)

ShowBranch(w, i) ==
  LET w1 == Log([w EXCEPT !.showStateMap[i] = TRUE], i, "setShown")
      w2 == eventsShow(w1, i)
  IN startAutoUpdate(w2, i)

HideBranch(w, i) ==
  LET w1 == Log([w EXCEPT !.showStateMap[i] = FALSE], i, "deleteShown")
      w2 == clearAutoUpdate(w1, i)
  IN IF w2.crashed[i] THEN w2 ELSE eventsHide(w2, i)

\* What the effect returns: React keeps it as the cleanup of this run.
EffectReturnNothing(w, i) == 0

EffectReturn(w, i) == w.autoUpdateCleanerMap[i]

\* The body of useIsoMorphicEffect(() => {...}, [show]).
ShowEffect(w, i) ==
  LET w1 == IF ShowGuard(w, i) THEN ShowBranch(w, i)
            ELSE IF HideGuard(w, i) THEN HideBranch(w, i)
            ELSE w
  IN IF w1.crashed[i] THEN w1
     ELSE [w1 EXCEPT !.cleanup[i] = EffectReturn(w1, i)]

\* React re-running the effect: the previous run's cleanup, then the body.
CommitShowEffect(w, i) ==
  LET w0 == [w EXCEPT !.effectLog[i] =
                 [show |-> w.show[i], marked |-> w.showStateMap[i],
                  cleaner |-> w.autoUpdateCleanerMap[i], ops |-> <<>>]]
      w1 == IF w0.cleanup[i] # 0 THEN Dispose(w0, i, w0.cleanup[i]) ELSE w0
  IN ShowEffect(Log(w1, i, "effect"), i)

\* setShow(v): React bails out when the value is unchanged; otherwise the
\* component re-renders and the effect on [show] re-runs in the same commit.
setShow(w, i, v) ==
  IF w.show[i] = v THEN w
  ELSE CommitShowEffect([w EXCEPT !.show[i] = v], i)

beforeEnterSwapped(w, i) == setShow(w, i, FALSE)

beforeEnter(w, i) == setShow(w, i, TRUE)

afterLeave(w, i) == setShow(w, i, FALSE)

\* transitionProps.show
TransitionShow(w, i) == IF w.isMounted[i] THEN w.propsShow[i] ELSE FALSE

\* const [ReferenceNode, FloatingNode] = props.children; isValidElement(...)
isValidElement(k) == k = "element"

\* What the render returns for the children ch: an empty Fragment when the
\* reference slot holds no element; a TypeError when the floating slot is
\* undefined or null (FloatingNode.type is evaluated while the JSX is built);
\* the full tree otherwise.
RenderOutput(ch) ==
  IF ~isValidElement(ch.reference) THEN "empty"
  ELSE IF ch.floating = "missing" THEN "throws"
  ELSE "tree"

\* React removing the instance: the last cleanup runs and the refs are nulled.
UnmountInstance(w, i) ==
  LET w0 == [w EXCEPT !.phase[i] = "destroyed",
                      !.reference[i] = FALSE,
                      !.floating[i] = FALSE]
  IN IF w.cleanup[i] # 0 THEN Dispose(w0, i, w.cleanup[i]) ELSE w0

\* A render throws: React unmounts the instance.
RenderThrows(w, i) ==
  UnmountInstance([w EXCEPT !.crashed[i] = TRUE, !.output[i] = "throws"], i)

\* The history of the handles and of props.autoUpdate.
Remember(w, i) ==
  [w EXCEPT !.ever[i] =
     [reference |-> @.reference \/ w.reference[i],
      floating |-> @.floating \/ w.floating[i],
      autoUpdate |-> @.autoUpdate \/ w.propsAutoUpdate[i] # "false"]]

\* <Transition> reacting to its `show` prop after a render.  It exists only
\* in the full tree, and it renders its child (<FloatingNode.type/>, whose type
\* is undefined when the floating slot holds a non-element) only when shown.
Transition(w, i) ==
  IF w.output[i] # "tree" THEN w
  ELSE IF TransitionShow(w, i) /\ w.tphase[i] \in {"hidden", "leaving"}
  THEN IF isValidElement(w.children[i].floating)
       THEN beforeEnter([w EXCEPT !.tphase[i] = "entering"], i)
       ELSE RenderThrows(w, i)
  ELSE IF ~TransitionShow(w, i) /\ w.tphase[i] \in {"entering", "visible"}
  THEN [w EXCEPT !.tphase[i] = "leaving"]
  ELSE w

Req(b) == IF b THEN "reqShow" ELSE "reqHide"

----------------------------------------------------------------------------
\* Actions

Alive(i) == phase[i] = "mounted" /\ ~crashed[i]

\* First render and commit: state initialisers, the render itself, refs
\* attached (or not, when the child renders no element; never when no tree
\* is rendered), then the first run of the show effect.
Mount(i, ps, au, ch, r, f) ==
  /\ phase[i] = "unmounted"
  /\ RenderOutput(ch) # "tree" => ~r /\ ~f
  /\ LET w0 == [World EXCEPT !.phase[i] = "mounted",
                             !.propsShow[i] = ps,
                             !.propsAutoUpdate[i] = au,
                             !.children[i] = ch,
                             !.output[i] = RenderOutput(ch),
                             !.show[i] = ps,
                             !.reference[i] = r,
                             !.floating[i] = f]
         w1 == Record(Remember(w0, i), i, Req(ps))
     IN Install(IF w1.output[i] = "throws" THEN RenderThrows(w1, i)
                ELSE CommitShowEffect(w1, i))

\* useEffect(() => { setIsMounted(true) }, [])
SetIsMounted(i) ==
  /\ Alive(i)
  /\ ~isMounted[i]
  /\ Install(Transition([World EXCEPT !.isMounted[i] = TRUE], i))

\* The parent re-renders the Float with a different props.show.  Passive
\* mount effects are flushed before any later render, hence isMounted.
SetPropsShow(i, b) ==
  /\ Alive(i)
  /\ isMounted[i]
  /\ propsShow[i] # b
  /\ Len(hist[i]) < MaxHist
  /\ Install(Transition(Record([World EXCEPT !.propsShow[i] = b], i, Req(b)), i))

\* The parent re-renders the Float with a different props.autoUpdate.
SetPropsAutoUpdate(i, au) ==
  /\ Alive(i)
  /\ propsAutoUpdate[i] # au
  /\ Install(Remember([World EXCEPT !.propsAutoUpdate[i] = au], i))

\* ref={reference}: the reference element is attached or detached.
SetReference(i, b) ==
  /\ Alive(i)
  /\ output[i] = "tree"
  /\ reference[i] # b
  /\ Install(Remember([World EXCEPT !.reference[i] = b], i))

\* ref: floating: the floating element is attached or detached.
SetFloating(i, b) ==
  /\ Alive(i)
  /\ output[i] = "tree"
  /\ floating[i] # b
  /\ Install(Remember([World EXCEPT !.floating[i] = b], i))

\* The enter animation runs to its end (afterEnter is not hooked).
EnterDone(i) ==
  /\ Alive(i)
  /\ tphase[i] = "entering"
  /\ Len(hist[i]) < MaxHist
  /\ Install(Record([World EXCEPT !.tphase[i] = "visible"], i, "enterDone"))

\* The leave animation runs to its end: afterLeave.
LeaveDone(i) ==
  /\ Alive(i)
  /\ tphase[i] = "leaving"
  /\ Len(hist[i]) < MaxHist
  /\ Install(afterLeave(Record([World EXCEPT !.tphase[i] = "hidden"], i, "leaveDone"), i))

\* React unmounts the instance.
Unmount(i) ==
  /\ Alive(i)
  /\ Install(UnmountInstance(World, i))

Step(i) ==
  \/ \E ps \in BOOLEAN, au \in AutoUpdateValues,
        ch \in [reference : ChildKinds, floating : ChildKinds],
        r \in BOOLEAN, f \in BOOLEAN :
       Mount(i, ps, au, ch, r, f)
  \/ SetIsMounted(i)
  \/ \E b \in BOOLEAN : SetPropsShow(i, b)
  \/ \E au \in AutoUpdateValues : SetPropsAutoUpdate(i, au)
  \/ \E b \in BOOLEAN : SetReference(i, b)
  \/ \E b \in BOOLEAN : SetFloating(i, b)
  \/ EnterDone(i)
  \/ LeaveDone(i)
  \/ Unmount(i)

Next == \E i \in Focus : Step(i)

Spec == Init /\ [][Next]_vars

----------------------------------------------------------------------------
\* The recomputation callback handed to autoUpdate: throttle(updateFloating, 16).

\* updateFloating: update() then events.update().  The log keeps whether the
\* subscription k that the call belongs to was still live when it ran.
updateFloating(w, i, k) ==
  [w EXCEPT !.updateLog[i] = IF w.subs[i][k] = 0 THEN "live" ELSE "disposed"]

\* The throttled wrapper is called: at the leading edge it invokes
\* updateFloating and arms the 16 ms timer; within the wait it only remembers
\* that a trailing call is due.
Throttled(w, i, k) ==
  IF w.throttle[i][k] = "idle"
  THEN updateFloating([w EXCEPT !.throttle[i][k] = "waiting"], i, k)
  ELSE [w EXCEPT !.throttle[i][k] = "pending"]

\* The 16 ms timer of the wrapper expires: the trailing call runs when one is
\* due.  Nothing cancels the timer.
TimerExpired(w, i, k) ==
  IF w.throttle[i][k] = "pending"
  THEN updateFloating([w EXCEPT !.throttle[i][k] = "idle"], i, k)
  ELSE [w EXCEPT !.throttle[i][k] = "idle"]

\* A scroll, resize or layout change reported by the live subscription k.
LayoutChange(i, k) ==
  /\ subs[i][k] = 0
  /\ Install(Throttled(World, i, k))

\* The timer of subscription k's wrapper fires.
ThrottleTimer(i, k) ==
  /\ throttle[i][k] # "idle"
  /\ Install(TimerExpired(World, i, k))

NextUpdate ==
  \E i \in Focus :
    \/ Step(i)
    \/ \E k \in 1..Len(subs[i]) : LayoutChange(i, k)
    \/ \E k \in 1..Len(subs[i]) : ThrottleTimer(i, k)

SpecUpdate == Init /\ [][NextUpdate]_vars

----------------------------------------------------------------------------
\* Several instances alive at once, sharing the two registries.

\* Bound on the events recorded per instance when several instances run.
MaxHistMulti == 4

\* props.children of a Float used as documented: two elements.
Elements == [reference |-> "element", floating |-> "element"]

\* The lifecycle steps of every instance, interleaved in any order.
NextMulti ==
  \E i \in Ids :
    \/ \E ps \in BOOLEAN, au \in AutoUpdateValues, r \in BOOLEAN, f \in BOOLEAN :
         Mount(i, ps, au, Elements, r, f)
    \/ SetIsMounted(i)
    \/ \E b \in BOOLEAN : Len(hist[i]) < MaxHistMulti /\ SetPropsShow(i, b)
    \/ Len(hist[i]) < MaxHistMulti /\ EnterDone(i)
    \/ Len(hist[i]) < MaxHistMulti /\ LeaveDone(i)
    \/ Unmount(i)

SpecMulti == Init /\ [][NextMulti]_vars

----------------------------------------------------------------------------
\* The middleware-building effect.

\* Names of the caller's middleware entries and the longest list modelled.
UserNames == {"userA", "userB"}
MaxUser == 2

\* Lists of distinct user entries, in any order.
UserLists ==
  {l \in UNION {[1..n -> UserNames] : n \in 0..MaxUser} :
     \A j, k \in 1..Len(l) : j # k => l[j] # l[k]}

\* The values an option prop is given.
OptionValues == {Undefined, False, True, Num(0), Num(8), Obj(1), Fn(1)}

MiddlewareValues ==
  {MwUndefined} \cup {MwArray(1, l) : l \in UserLists}
                \cup {MwFunction(1, l) : l \in UserLists}

Configs ==
  [offset : OptionValues, flip : OptionValues, shift : OptionValues,
   autoPlacement : OptionValues, arrow : OptionValues, hide : OptionValues,
   middleware : MiddlewareValues]

\* The conditions under which each built-in middleware is pushed.
offsetEnabled(x) == x.t = "number" \/ x.t = "object" \/ x.t = "function"

flipEnabledIfTruthy(x) == x \notin {Undefined, False, Num(0)}

flipEnabled(x) == x = True \/ x.t = "number" \/ x.t = "object"

shiftEnabled(x) == x = True \/ x.t = "number" \/ x.t = "object"

autoPlacementEnabled(x) == x = True \/ x.t = "object"

arrowEnabled(x) == x = True \/ x.t = "number"

hideEnabled(x) == x = True \/ x.t = "object"

\* One pipeline entry: the middleware and the option it was built with.
Entry(name, arg) == [mw |-> name, arg |-> arg]

\* flip({padding: number or undefined, ...object}) and shift(...) alike.
PaddingArg(x) == IF x.t = "number" \/ x.t = "object" THEN x ELSE Undefined

\* autoPlacement(object or undefined) and hide(...) alike.
ObjectArg(x) == IF x.t = "object" THEN x ELSE Undefined

\* arrow({element, padding: props.arrow === true ? 0 : props.arrow})
ArrowArg(x) == IF x = True THEN Num(0) ELSE x

\* The entries props.middleware contributes (a function is called with refs).
UserMiddleware(m) ==
  IF m.t = "undefined" THEN <<>>
  ELSE [k \in 1..Len(m.items) |-> Entry(m.items[k], Undefined)]

Part(enabled, e) == IF enabled THEN <<e>> ELSE <<>>

\* The body of the effect up to setMiddleware: the array _middleware.
BuildMiddlewareHideBeforeUser(c) ==
  Part(offsetEnabled(c.offset), Entry("offset", c.offset))
  \o Part(flipEnabled(c.flip), Entry("flip", PaddingArg(c.flip)))
  \o Part(shiftEnabled(c.shift), Entry("shift", PaddingArg(c.shift)))
  \o Part(autoPlacementEnabled(c.autoPlacement),
          Entry("autoPlacement", ObjectArg(c.autoPlacement)))
  \o Part(arrowEnabled(c.arrow), Entry("arrow", ArrowArg(c.arrow)))
  \o Part(hideEnabled(c.hide), Entry("hide", ObjectArg(c.hide)))
  \o UserMiddleware(c.middleware)

BuildMiddleware(c) ==
  Part(offsetEnabled(c.offset), Entry("offset", c.offset))
  \o Part(flipEnabled(c.flip), Entry("flip", PaddingArg(c.flip)))
  \o Part(shiftEnabled(c.shift), Entry("shift", PaddingArg(c.shift)))
  \o Part(autoPlacementEnabled(c.autoPlacement),
          Entry("autoPlacement", ObjectArg(c.autoPlacement)))
  \o Part(arrowEnabled(c.arrow), Entry("arrow", ArrowArg(c.arrow)))
  \o UserMiddleware(c.middleware)
  \o Part(hideEnabled(c.hide), Entry("hide", ObjectArg(c.hide)))

\* The effect's dependency list.
DepNames == {"offset", "shift", "flip", "arrow", "autoPlacement", "hide", "middleware"}

DepsChangedWithoutHide(old, new) == \E d \in DepNames \ {"hide"} : old[d] # new[d]

\* React re-runs the effect when some dependency is not Object.is-equal to
\* its value at the previous render.
DepsChanged(old, new) == \E d \in DepNames : old[d] # new[d]

\* The first render: the effect always runs and calls setMiddleware.
MountMiddleware ==
  /\ mwLog = "none"
  /\ middleware' = [set |-> TRUE, list |-> BuildMiddleware(config)]
  /\ mwLog' = "rebuilt"
  /\ UNCHANGED <<config, phase, propsShow, propsAutoUpdate, isMounted, show,
                 reference, floating, tphase, cleanup, showStateMap,
                 autoUpdateCleanerMap, subs, hist, effectLog, crashed,
                 children, output, ever, throttle, updateLog>>

\* Specification of the pipeline built for every configuration.
InitMw ==
  /\ LifecycleInit
  /\ config \in Configs
  /\ middleware = NoMiddleware
  /\ mwLog = "none"

NextMw == MountMiddleware

SpecMw == InitMw /\ [][NextMw]_vars

\* A later render with the props c: the effect re-runs only when a dependency
\* changed; setMiddleware's own re-render has the same props and changes
\* nothing.
Rerender(c) ==
  /\ mwLog # "none"
  /\ config' = c
  /\ IF DepsChanged(config, c)
     THEN /\ middleware' = [set |-> TRUE, list |-> BuildMiddleware(c)]
          /\ mwLog' = "rebuilt"
     ELSE /\ middleware' = middleware
          /\ mwLog' = "kept"
  /\ UNCHANGED <<phase, propsShow, propsAutoUpdate, isMounted, show,
                 reference, floating, tphase, cleanup, showStateMap,
                 autoUpdateCleanerMap, subs, hist, effectLog, crashed,
                 children, output, ever, throttle, updateLog>>

\* Values that tell a change of content from a change of reference only:
\* Obj(1) and Obj(2), and the two arrays, are equal in content.
RerenderOptionValues == {Undefined, True, Obj(1), Obj(2)}

RerenderMiddlewareValues ==
  {MwUndefined, MwArray(1, <<"userA">>), MwArray(2, <<"userA">>)}

InitRerender ==
  /\ LifecycleInit
  /\ config \in [offset : RerenderOptionValues, flip : RerenderOptionValues,
                 shift : RerenderOptionValues, autoPlacement : RerenderOptionValues,
                 arrow : RerenderOptionValues, hide : RerenderOptionValues,
                 middleware : RerenderMiddlewareValues]
  /\ middleware = NoMiddleware
  /\ mwLog = "none"

NextRerender ==
  \/ MountMiddleware
  \/ \E f \in DepNames \ {"middleware"}, v \in RerenderOptionValues :
       Rerender([config EXCEPT ![f] = v])
  \/ \E v \in RerenderMiddlewareValues : Rerender([config EXCEPT !.middleware = v])

SpecRerender == InitRerender /\ [][NextRerender]_vars

----------------------------------------------------------------------------
\* Vocabulary of the properties.

Range(s) == {s[k] : k \in 1..Len(s)}

IsCallback(e) == e \in {"onShow", "onHide"}

IsRequest(e) == e \in {"reqShow", "reqHide"}

Callbacks(h) == SelectSeq(h, IsCallback)

Requests(h) == SelectSeq(h, IsRequest)

\* The subscriptions of instance i that were created and never disposed.
Live(i) == {k \in 1..Len(subs[i]) : subs[i][k] = 0}

\* The callbacks instance i fired during the step.
Fired(i) == Callbacks(SubSeq(hist'[i], Len(hist[i]) + 1, Len(hist'[i])))

\* The show effect of instance i ran during the step (mount, or show changed).
EffectRan(i) ==
  \/ phase[i] = "unmounted" /\ phase'[i] = "mounted"
  \/ phase[i] = "mounted" /\ show'[i] # show[i]

\* Position of the first / last occurrence of op in ops (0 when absent).
FirstPos(ops, op) ==
  IF op \in Range(ops) THEN CHOOSE k \in 1..Len(ops) :
       ops[k] = op /\ \A j \in 1..(k - 1) : ops[j] # op
  ELSE 0

LastPos(ops, op) ==
  IF op \in Range(ops) THEN CHOOSE k \in 1..Len(ops) :
       ops[k] = op /\ \A j \in (k + 1)..Len(ops) : ops[j] # op
  ELSE 0

----------------------------------------------------------------------------
\* C1 (as stated): a mounted instance has an active auto-update subscription
\* if and only if its committed show state is true and both element handles
\* are attached.
C1_SubscriptionIffShownAttached ==
  \A i \in Ids : phase[i] = "mounted" =>
    ((Live(i) # {}) <=> (show[i] /\ reference[i] /\ floating[i]))

\* C1 (amended): an instance has an active auto-update subscription only if
\* it is mounted, its committed show state is true and the registry marks it
\* shown; the active subscription is the one registered in
\* autoUpdateCleanerMap.
C1_SubscriptionOnlyWhileShown ==
  \A i \in Ids : Live(i) # {} =>
    /\ phase[i] = "mounted"
    /\ show[i]
    /\ showStateMap[i]
    /\ Live(i) = {autoUpdateCleanerMap[i]}

\* A subscription is alive although the floating handle has been detached.
C1_Witness ==
  \E i \in Ids : Live(i) # {} /\ show[i] /\ reference[i] /\ ~floating[i]

\* C2: every Hidden->Shown transition of the committed show state (with both
\* handles attached) fires onShow exactly once in that step, and every
\* Shown->Hidden transition of an instance marked shown fires onHide exactly
\* once in that step.
C2_EachTransitionFiresOnce ==
  [][\A i \in Ids : phase[i] = "mounted" =>
       /\ (~show[i] /\ show'[i] /\ reference[i] /\ floating[i])
            => Fired(i) = <<"onShow">>
       /\ (show[i] /\ ~show'[i] /\ showStateMap[i])
            => Fired(i) = <<"onHide">>]_vars

\* C3: when the requests were false, true, false with no completed enter
\* animation, onShow fired, and the leave animation has ended after the last
\* request, then the committed show state is false and the callbacks were
\* exactly onShow then onHide.
C3_RapidToggleEndsHidden ==
  \A i \in Ids :
    ( /\ Requests(hist[i]) = <<"reqHide", "reqShow", "reqHide">>
      /\ "enterDone" \notin Range(hist[i])
      /\ "onShow" \in Range(hist[i])
      /\ LastPos(hist[i], "leaveDone") > LastPos(hist[i], "reqHide") )
    => /\ show[i] = FALSE
       /\ Callbacks(hist[i]) = <<"onShow", "onHide">>

\* C4: unmounting an instance that holds an auto-update subscription invokes
\* that subscription's disposer exactly once (it had not been invoked before,
\* and has been invoked once afterwards), and leaves no subscription of the
\* instance undisposed.
C4_UnmountDisposesOnce ==
  [][\A i \in Ids :
       (phase[i] = "mounted" /\ phase'[i] = "destroyed" /\ autoUpdateCleanerMap[i] # 0)
       => /\ subs[i][autoUpdateCleanerMap[i]] = 0
          /\ subs'[i][autoUpdateCleanerMap[i]] = 1
          /\ \A k \in 1..Len(subs'[i]) : subs'[i][k] >= 1]_vars

\* A shown instance was unmounted and its subscription disposed once.
C4_Witness ==
  \E i \in Ids :
    /\ phase[i] = "destroyed"
    /\ show[i]
    /\ autoUpdateCleanerMap[i] # 0
    /\ subs[i][autoUpdateCleanerMap[i]] = 1

\* C5: after an instance is unmounted neither showStateMap nor
\* autoUpdateCleanerMap contains an entry for its id.
C5_NoRegistryEntryAfterUnmount ==
  \A i \in Ids : phase[i] = "destroyed" =>
    ~showStateMap[i] /\ autoUpdateCleanerMap[i] = 0

\* C6: an instance never has more than one active (created and not yet
\* disposed) auto-update subscription.
C6_AtMostOneSubscription ==
  \A i \in Ids : Cardinality(Live(i)) <= 1

\* A second subscription is alive after the first one was disposed.
C6_Witness ==
  \E i \in Ids : Len(subs[i]) >= 2 /\ Live(i) = {Len(subs[i])}

\* C7: a run of the show effect with show === true while showStateMap holds
\* the id fires no callback, creates no subscription and leaves both
\* registries unchanged.
C7_ShowWhenAlreadyShownIsNoOp ==
  [][\A i \in Ids :
       (EffectRan(i) /\ effectLog'[i].show /\ effectLog'[i].marked)
       => /\ Fired(i) = <<>>
          /\ Len(subs'[i]) = Len(subs[i])
          /\ showStateMap' = showStateMap
          /\ autoUpdateCleanerMap' = autoUpdateCleanerMap]_vars

\* The show effect last ran with show === true on an id already marked shown.
C7_Witness ==
  \E i \in Ids : effectLog[i].show /\ effectLog[i].marked /\ show[i]

\* C8: a run of the show effect with show === false while
\* autoUpdateCleanerMap has no entry for the id fires no callback, calls no
\* disposer and leaves both registries unchanged.
C8_HideWithoutSubscriptionIsNoOp ==
  [][\A i \in Ids :
       (EffectRan(i) /\ ~effectLog'[i].show /\ effectLog'[i].cleaner = 0)
       => /\ Fired(i) = <<>>
          /\ subs'[i] = subs[i]
          /\ showStateMap' = showStateMap
          /\ autoUpdateCleanerMap' = autoUpdateCleanerMap]_vars

\* The show effect last ran with show === false on an id that was marked
\* shown but had no subscription.
C8_Witness ==
  \E i \in Ids :
    /\ effectLog[i].ops # <<>>
    /\ ~effectLog[i].show
    /\ effectLog[i].marked
    /\ effectLog[i].cleaner = 0

\* C9: in a Hidden->Shown transition showStateMap is marked, then onShow is
\* invoked, then the subscription start is attempted; in a Shown->Hidden
\* transition the showStateMap entry is removed before the subscription's
\* disposer is invoked at all, the cleaner entry is removed after it, and
\* onHide comes last.
C9_RegistryUpdateFirst ==
  \A i \in Ids :
    LET ops == effectLog[i].ops IN
    /\ "onShow" \in Range(ops) =>
         /\ FirstPos(ops, "setShown") < FirstPos(ops, "onShow")
         /\ FirstPos(ops, "onShow") < FirstPos(ops, "startAutoUpdate")
    /\ "onHide" \in Range(ops) =>
         /\ FirstPos(ops, "deleteShown") < FirstPos(ops, "dispose")
         /\ LastPos(ops, "dispose") < FirstPos(ops, "deleteCleaner")
         /\ FirstPos(ops, "deleteCleaner") < FirstPos(ops, "onHide")

\* C10 (as stated): the committed show state becomes true only in the step
\* that completes an entering animation and false only in the step that
\* completes a leaving animation.
C10_CommitOnlyAtAnimationEnd ==
  [][\A i \in Ids : phase[i] = "mounted" =>
       /\ (~show[i] /\ show'[i]) => (tphase[i] = "entering" /\ tphase'[i] = "visible")
       /\ (show[i] /\ ~show'[i]) => (tphase[i] = "leaving" /\ tphase'[i] = "hidden")]_vars

\* C10 (amended): the committed show state becomes true only in the step in
\* which an entering animation begins (beforeEnter) and becomes false only in
\* the step in which a leaving animation completes (afterLeave).
C10_CommitAtBeforeEnterAndAfterLeave ==
  [][\A i \in Ids : phase[i] = "mounted" =>
       /\ (~show[i] /\ show'[i]) =>
            (tphase[i] \in {"hidden", "leaving"} /\ tphase'[i] = "entering")
       /\ (show[i] /\ ~show'[i]) => (tphase[i] = "leaving" /\ tphase'[i] = "hidden")]_vars

\* An instance mounted hidden has committed show = true while its enter
\* animation is still running.
C10_Witness ==
  \E i \in Ids :
    /\ phase[i] = "mounted"
    /\ Head(hist[i]) = "reqHide"
    /\ show[i]
    /\ tphase[i] = "entering"

----------------------------------------------------------------------------
\* Vocabulary of the pipeline properties.

\* The names of the pipeline's entries, in order.
PipelineNames == [k \in 1..Len(middleware.list) |-> middleware.list[k].mw]

Present(name) == \E k \in 1..Len(middleware.list) : middleware.list[k].mw = name

IsUser(name) == name \in UserNames

\* Position of a middleware in the documented order.
Rank(name) ==
  CASE name = "offset" -> 1
    [] name = "flip" -> 2
    [] name = "shift" -> 3
    [] name = "autoPlacement" -> 4
    [] name = "arrow" -> 5
    [] name \in UserNames -> 6
    [] name = "hide" -> 7
    [] OTHER -> 0

\* The entries the caller supplied, in the caller's order.
GivenUserNames == IF config.middleware.t = "undefined" THEN <<>> ELSE config.middleware.items

Off(x) == x = Undefined \/ x = False

\* C11: the built pipeline holds only offset, flip, shift, autoPlacement,
\* arrow, the caller's entries and hide; it is ordered by that fixed order
\* with every built-in at most once, the caller's entries appear exactly as
\* given, between the built-in geometry middlewares and hide; and
\* {offset: 8, flip: true} alone yields exactly [offset(8), flip()].
C11_PipelineOrderFixed ==
  middleware.set =>
    /\ \A k \in 1..Len(PipelineNames) : Rank(PipelineNames[k]) > 0
    /\ \A j, k \in 1..Len(PipelineNames) : j < k =>
         \/ Rank(PipelineNames[j]) < Rank(PipelineNames[k])
         \/ IsUser(PipelineNames[j]) /\ IsUser(PipelineNames[k])
    /\ SelectSeq(PipelineNames, IsUser) = GivenUserNames
    /\ ( /\ config.offset = Num(8) /\ config.flip = True
         /\ Off(config.shift) /\ Off(config.autoPlacement)
         /\ Off(config.arrow) /\ Off(config.hide)
         /\ config.middleware = MwUndefined )
       => middleware.list = <<Entry("offset", Num(8)), Entry("flip", Undefined)>>

\* Every built-in is enabled and the caller gave two entries, userB first.
C11_Witness ==
  /\ middleware.set
  /\ PipelineNames = <<"offset", "flip", "shift", "autoPlacement", "arrow",
                       "userB", "userA", "hide">>

\* What C12 calls an enabling value: truthy, numeric, or an object.
TruthyNumericOrObject(x) == x \notin {Undefined, False}

Features == {"offset", "flip", "shift", "autoPlacement", "arrow", "hide"}

\* C12 (as stated): each of the six features is in the pipeline if and only
\* if its configuration value is truthy, numeric or an object.
C12_IncludedIffTruthyNumericObject ==
  middleware.set =>
    \A f \in Features : Present(f) <=> TruthyNumericOrObject(config[f])

\* The kind of a configuration value: its typeof, with the two booleans apart.
Kind(x) == IF x = True THEN "true" ELSE IF x = False THEN "false" ELSE x.t

\* The kinds each feature accepts.
Accepted ==
  [offset |-> {"number", "object", "function"},
   flip |-> {"true", "number", "object"},
   shift |-> {"true", "number", "object"},
   autoPlacement |-> {"true", "object"},
   arrow |-> {"true", "number"},
   hide |-> {"true", "object"}]

\* C12 (amended): offset is in the pipeline iff its value is a number
\* (0 included), an object or a function; flip and shift iff true, a number
\* or an object; autoPlacement and hide iff true or an object; arrow iff true
\* or a number.  false and undefined omit every feature.
C12_IncludedIffAcceptedKind ==
  middleware.set =>
    \A f \in Features : Present(f) <=> Kind(config[f]) \in Accepted[f]

\* flip: 0 is included although falsy; offset: true is omitted although truthy.
C12_Witness ==
  /\ middleware.set
  /\ config.flip = Num(0) /\ Present("flip")
  /\ config.offset = True /\ ~Present("offset")

\* C16: on a render after the first, setMiddleware is called if and only if
\* one of offset, shift, flip, arrow, autoPlacement, hide, middleware is not
\* identical (by value for primitives, by reference for objects) to its value
\* at the previous render; with all seven identical the pipeline state is
\* left as it was.
C16_RebuiltIffInputChanged ==
  [][mwLog # "none" =>
       IF \/ config'.offset # config.offset
          \/ config'.shift # config.shift
          \/ config'.flip # config.flip
          \/ config'.arrow # config.arrow
          \/ config'.autoPlacement # config.autoPlacement
          \/ config'.hide # config.hide
          \/ config'.middleware # config.middleware
       THEN mwLog' = "rebuilt" /\ middleware'.set
       ELSE mwLog' = "kept" /\ middleware' = middleware]_vars

\* A render with identical inputs happened on a configuration holding the
\* second of two equal-content objects.
C16_Witness ==
  /\ mwLog = "kept"
  /\ config.hide = Obj(2)
  /\ config.middleware = MwArray(2, <<"userA">>)

\* C15: across one Shown->Hidden transition of an instance holding a
\* subscription (the previous run's cleanup, then the effect run with
\* show === false) the subscription's disposer is invoked exactly once.
C15_HideDisposesOnce ==
  [][\A i \in Ids :
       (phase[i] = "mounted" /\ show[i] /\ ~show'[i] /\ autoUpdateCleanerMap[i] # 0)
       => subs'[i][autoUpdateCleanerMap[i]] = subs[i][autoUpdateCleanerMap[i]] + 1]_vars

\* C19: between the lifecycle steps of a mounted instance, an entry in
\* autoUpdateCleanerMap for its id implies that showStateMap marks the id
\* shown.
C19_CleanerImpliesMarkedShown ==
  \A i \in Ids :
    (phase[i] = "mounted" /\ autoUpdateCleanerMap[i] # 0) => showStateMap[i]

\* A subscription is registered and the id marked shown while the leave
\* animation is running.
C19_Witness ==
  \E i \in Ids :
    /\ phase[i] = "mounted"
    /\ autoUpdateCleanerMap[i] # 0
    /\ showStateMap[i]
    /\ tphase[i] = "leaving"

\* C13: while the reference handle or the floating handle of an instance has
\* never been attached, no auto-update subscription has been created for it,
\* neither registry has an entry for it, and no error has been raised.
C13_NeverAttachedIsSilent ==
  \A i \in Ids :
    (phase[i] # "unmounted" /\ (~ever[i].reference \/ ~ever[i].floating))
    => /\ subs[i] = <<>>
       /\ ~showStateMap[i]
       /\ autoUpdateCleanerMap[i] = 0
       /\ ~crashed[i]

\* C14: rendering a Float whose reference slot or floating slot holds no
\* valid element raises no error.
C14_InvalidChildIsNotFatal ==
  \A i \in Ids :
    ( /\ phase[i] # "unmounted"
      /\ \/ ~isValidElement(children[i].reference)
         \/ ~isValidElement(children[i].floating) )
    => ~crashed[i] /\ output[i] # "throws"

\* C20: while props.autoUpdate has been false since the instance was
\* mounted, autoUpdate() has not been called for it and autoUpdateCleanerMap
\* has no entry for its id.
C20_AutoUpdateFalseNeverSubscribes ==
  \A i \in Ids :
    (phase[i] # "unmounted" /\ ~ever[i].autoUpdate)
    => subs[i] = <<>> /\ autoUpdateCleanerMap[i] = 0

\* An instance whose autoUpdate was always false has been shown, with both
\* handles attached, hidden and shown again.
C20_Witness ==
  \E i \in Ids :
    /\ phase[i] = "mounted"
    /\ ~ever[i].autoUpdate
    /\ reference[i] /\ floating[i]
    /\ showStateMap[i]
    /\ "leaveDone" \in Range(hist[i])
    /\ show[i]

----------------------------------------------------------------------------
\* Vocabulary of the isolation property.

\* The part of the state that belongs to instance i.
Proj(w, i) == [f \in DOMAIN w |-> w[f][i]]

\* What tells that instance i took a step.
Own(i) == <<phase[i], isMounted[i], propsShow[i], tphase[i]>>

\* The registries holding only the entries keyed by i.
Isolate(w, i) ==
  [w EXCEPT !.showStateMap = [j \in Ids |-> IF j = i THEN @[j] ELSE FALSE],
            !.autoUpdateCleanerMap = [j \in Ids |-> IF j = i THEN @[j] ELSE 0]]

\* The first render and commit of instance i in the world w.
Mounted(w, i, ps, au, r, f) ==
  LET w0 == [w EXCEPT !.phase[i] = "mounted",
                      !.propsShow[i] = ps,
                      !.propsAutoUpdate[i] = au,
                      !.children[i] = Elements,
                      !.output[i] = RenderOutput(Elements),
                      !.show[i] = ps,
                      !.reference[i] = r,
                      !.floating[i] = f]
  IN CommitShowEffect(Record(Remember(w0, i), i, Req(ps)), i)

\* Every world one lifecycle step of instance i can lead to from w.
Handlers(w, i) ==
  LET alive == w.phase[i] = "mounted" /\ ~w.crashed[i]
      budget == Len(w.hist[i]) < MaxHistMulti
  IN  (IF w.phase[i] = "unmounted"
       THEN {Mounted(w, i, ps, au, r, f) :
               ps \in BOOLEAN, au \in AutoUpdateValues, r \in BOOLEAN, f \in BOOLEAN}
       ELSE {})
      \cup (IF alive /\ ~w.isMounted[i]
            THEN {Transition([w EXCEPT !.isMounted[i] = TRUE], i)}
            ELSE {})
      \cup (IF alive /\ budget /\ w.isMounted[i]
            THEN {Transition(Record([w EXCEPT !.propsShow[i] = ~w.propsShow[i]], i,
                                    Req(~w.propsShow[i])), i)}
            ELSE {})
      \cup (IF alive /\ budget /\ w.tphase[i] = "entering"
            THEN {Record([w EXCEPT !.tphase[i] = "visible"], i, "enterDone")}
            ELSE {})
      \cup (IF alive /\ budget /\ w.tphase[i] = "leaving"
            THEN {afterLeave(Record([w EXCEPT !.tphase[i] = "hidden"], i, "leaveDone"), i)}
            ELSE {})
      \cup (IF alive THEN {UnmountInstance(w, i)} ELSE {})

----------------------------------------------------------------------------
\* C17: with several instances alive, a lifecycle step of one instance (show,
\* hide, effect cleanup, unmount) leaves every other instance's showStateMap
\* and autoUpdateCleanerMap entries as they were, invokes none of their
\* disposers or callbacks, and has the outcome it would have with the
\* registries holding only its own entries, in every interleaving.
C17_StepsAreIsolated ==
  [][\A i \in Ids :
       Own(i)' # Own(i) =>
         /\ \A j \in Ids \ {i} :
              /\ showStateMap'[j] = showStateMap[j]
              /\ autoUpdateCleanerMap'[j] = autoUpdateCleanerMap[j]
              /\ subs'[j] = subs[j]
              /\ hist'[j] = hist[j]
         /\ Proj(World', i) \in {Proj(x, i) : x \in Handlers(Isolate(World, i), i)}]_vars

\* Instance 1 was shown, hidden and unmounted while instance 2 stays shown
\* with its subscription live and its only callback so far being onShow.
C17_Witness ==
  /\ phase[1] = "destroyed"
  /\ Callbacks(hist[1]) = <<"onShow", "onHide">>
  /\ Live(1) = {}
  /\ Alive(2)
  /\ showStateMap[2]
  /\ autoUpdateCleanerMap[2] # 0
  /\ Live(2) # {}
  /\ Callbacks(hist[2]) = <<"onShow">>

----------------------------------------------------------------------------
\* C18: once a subscription has been disposed, by a hide transition or by
\* unmount, the recomputation callback (update() then onUpdate) never runs for
\* it again, a throttled call pending at the disposal included.
C18_NoUpdateAfterDispose ==
  \A i \in Ids : updateLog[i] # "disposed"

====
